---------------------------- MODULE Spec2Model ----------------------------
(***************************************************************************)
(* Model of cms-2015-collision-datasets-hi-ppref/code/                     *)
(* create_dataset_records.py: the loaders that fill the process-wide       *)
(* caches, the deep JSON search, the dataset identifier parser, the        *)
(* file-index resolution, the record builder and the driver (main).        *)
(*                                                                         *)
(* Python strings are sequences of one-character strings, so that          *)
(* slicing, str.replace, str.strip, str.endswith and the regular           *)
(* expression are computed character by character; a fixed fragment of     *)
(* prose inside a templated text is kept as one element.                   *)
(***************************************************************************)
EXTENDS Integers, Sequences, FiniteSets, TLC

VARIABLES
    \* the external files main() reads
    target_lines,        \* ./inputs/cms-2015-collision-datasets-hi-ppref.txt
    doi_lines,           \* ./inputs/doi-col.txt
    allruns_lines,       \* ../cms-YYYY-run-numbers/inputs/allruns.txt
    das_store,           \* ./inputs/das-json-store/<dataset>.json
    eos_listing,         \* output of "ls ./inputs/eos-file-indexes/ | grep"
    hlt_file,            \* ./inputs/hlt-2015-hi-ppref-datasets.txt
    containerimages_file,  \* ../cms-release-info/..._container_images_info.json
    recocmssw_lines,     \* ./inputs/reco-config-files-cmssw.csv
    recoglobaltag_lines, \* ./inputs/reco-config-files-globaltag.csv
    selection_file,      \* ./inputs/CMSDatasetDescription_Run2015E.csv
    \* the process
    pc,                  \* position of the interpreter in main()
    DOI_INFO,            \* module global: dataset -> doi
    RUNNUMBER_CACHE,     \* module global: dataset -> sorted run numbers
    FWYZARD,             \* module global: dataset -> trigger paths
    SELECTION_DESCRIPTIONS,  \* module global: dataset -> description
    LINK_INFO,           \* module global: the items <<reco file, recid>>
    CONTAINERIMAGES_CACHE,   \* module global: release -> container images
    RECOCMSSW_CACHE,     \* module global: reco file -> release
    RECOGLOBALTAG_CACHE, \* module global: reco file -> global tag
    dataset_full_names,  \* local of main()
    records,             \* local of create_records()
    recid,               \* local of create_records()
    stdout,              \* what has been written to standard output
    exc,                 \* the exception that ended the run, or "none"
    \* one call of a function on its own
    data, akey, aval,    \* get_from_deep_json(data, akey) -> aval
    m, rec               \* create_record: the match object and the record

\* the files read by the loaders that create_record does not read through
config == <<hlt_file, containerimages_file, recocmssw_lines,
            recoglobaltag_lines, selection_file>>

vars == <<target_lines, doi_lines, allruns_lines, das_store, eos_listing,
          config, pc, DOI_INFO, RUNNUMBER_CACHE, FWYZARD,
          SELECTION_DESCRIPTIONS, LINK_INFO, CONTAINERIMAGES_CACHE,
          RECOCMSSW_CACHE, RECOGLOBALTAG_CACHE, dataset_full_names, records,
          recid, stdout, exc, data, akey, aval, m, rec>>

-----------------------------------------------------------------------------
(* Bounds of the model. *)

MaxDatasets == 2      \* lines of the target-dataset file
MaxIdLen    == 6      \* characters of an enumerated dataset identifier
MaxListing  == 3      \* lines of an index-file listing
MaxWrap     == 2      \* containers wrapped around a JSON document
MaxLinks    == 2      \* items of LINK_INFO

-----------------------------------------------------------------------------
(* Program constants. *)

recid_freerange_start == 24600

-----------------------------------------------------------------------------
(* Python str helpers. *)

Min(a, b) == IF a < b THEN a ELSE b

Digits == {"0", "1", "2", "3", "4", "5", "6", "7", "8", "9"}

Whitespace == {" ", "\n", "\t", "\r"}

DigitChar(d) ==
    CASE d = 0 -> "0" [] d = 1 -> "1" [] d = 2 -> "2" [] d = 3 -> "3"
      [] d = 4 -> "4" [] d = 5 -> "5" [] d = 6 -> "6" [] d = 7 -> "7"
      [] d = 8 -> "8" [] d = 9 -> "9"

\* str(n) for a non-negative integer n
RECURSIVE Str(_)
Str(n) == IF n < 10 THEN <<DigitChar(n)>>
          ELSE Str(n \div 10) \o <<DigitChar(n % 10)>>

\* s.endswith(suffix)
EndsWith(s, suffix) ==
    /\ Len(suffix) <= Len(s)
    /\ SubSeq(s, Len(s) - Len(suffix) + 1, Len(s)) = suffix

\* s.startswith(prefix)
StartsWith(s, prefix) ==
    /\ Len(prefix) <= Len(s)
    /\ SubSeq(s, 1, Len(prefix)) = prefix

\* s.strip()
RECURSIVE LStrip(_)
LStrip(s) == IF s # <<>> /\ Head(s) \in Whitespace THEN LStrip(Tail(s)) ELSE s

RECURSIVE RStrip(_)
RStrip(s) == IF s # <<>> /\ s[Len(s)] \in Whitespace
             THEN RStrip(SubSeq(s, 1, Len(s) - 1)) ELSE s

Strip(s) == RStrip(LStrip(s))

\* s[lo:hi] with 0-based Python bounds 0 <= lo <= hi
Slice(s, lo, hi) == SubSeq(s, lo + 1, Min(hi, Len(s)))

\* s.replace(old, "")
RECURSIVE ReplaceWithEmpty(_, _)
ReplaceWithEmpty(s, old) ==
    IF old = <<>> \/ s = <<>> THEN s
    ELSE IF StartsWith(s, old)
         THEN ReplaceWithEmpty(SubSeq(s, Len(old) + 1, Len(s)), old)
         ELSE <<Head(s)>> \o ReplaceWithEmpty(Tail(s), old)

\* lexicographic order of Python str by character; the characters that occur
\* in run-number lines are digits, ordered as their code points
CharLess(a, b) ==
    \E i, j \in 0..9 : DigitChar(i) = a /\ DigitChar(j) = b /\ i < j

RECURSIVE StrLess(_, _)
StrLess(s, t) ==
    IF t = <<>> THEN FALSE
    ELSE IF s = <<>> THEN TRUE
    ELSE IF Head(s) = Head(t) THEN StrLess(Tail(s), Tail(t))
    ELSE CharLess(Head(s), Head(t))

-----------------------------------------------------------------------------
(* The dataset identifier parser of create_record. *)

\* "." of the regular expression: any character but a newline
Dot(s, lo, hi) == \A p \in lo..hi : s[p] # "\n"

\* "$" matches at the end of the string and before a newline that ends it:
\* the last position a group can take
PatternEnd(s) ==
    IF s # <<>> /\ s[Len(s)] = "\n" THEN Len(s) - 1 ELSE Len(s)

\* the tail "-(.*?)/(.*)$" can match with the dash at j
DashMatches(s, j) ==
    /\ s[j] = "-"
    /\ \E k \in (j + 1)..PatternEnd(s) :
          s[k] = "/" /\ Dot(s, j + 1, k - 1) /\ Dot(s, k + 1, PatternEnd(s))

\* the tail "\/(.*?)-(.*?)/(.*)$" can match with the slash at i
SlashMatches(s, i) ==
    /\ s[i] = "/"
    /\ \E j \in (i + 1)..PatternEnd(s) :
          Dot(s, i + 1, j - 1) /\ DashMatches(s, j)

NoMatch == [ok |-> FALSE, groups |-> <<>>]

\* re.match(r"^/(.*)\/(.*?)-(.*?)/(.*)$", s): the first group is greedy (the
\* last slash that lets the rest match), the second and third are lazy (the
\* first dash, then the first slash, that let the rest match)
ReMatch(s) ==
    LET e == PatternEnd(s)
    IN IF \/ s = <<>>
          \/ s[1] # "/"
          \/ ~ \E i \in 2..e : Dot(s, 2, i - 1) /\ SlashMatches(s, i)
       THEN NoMatch
       ELSE LET i == CHOOSE p \in 2..e :
                       /\ Dot(s, 2, p - 1) /\ SlashMatches(s, p)
                       /\ \A q \in (p + 1)..e :
                             ~ (Dot(s, 2, q - 1) /\ SlashMatches(s, q))
                j == CHOOSE p \in (i + 1)..e :
                       /\ Dot(s, i + 1, p - 1) /\ DashMatches(s, p)
                       /\ \A q \in (i + 1)..(p - 1) :
                             ~ (Dot(s, i + 1, q - 1) /\ DashMatches(s, q))
                k == CHOOSE p \in (j + 1)..e :
                       /\ s[p] = "/" /\ Dot(s, j + 1, p - 1) /\ Dot(s, p + 1, e)
                       /\ \A q \in (j + 1)..(p - 1) :
                             ~ (s[q] = "/" /\ Dot(s, j + 1, q - 1)
                                           /\ Dot(s, q + 1, e))
            IN [ok |-> TRUE,
                groups |-> <<SubSeq(s, 2, i - 1), SubSeq(s, i + 1, j - 1),
                             SubSeq(s, j + 1, k - 1), SubSeq(s, k + 1, e)>>]

dataset_short(mo) == mo.groups[1]

dataset_runperiod(mo) == mo.groups[2]

dataset_version(mo) == mo.groups[3]

\* the data tier read from the third group
dataset_format_mutant(mo) == mo.groups[3]

dataset_format(mo) == mo.groups[4]

\* the year sliced one position further, [4:8]
dataset_runperiod_year_mutant(mo) == Slice(dataset_runperiod(mo), 4, 8)

dataset_runperiod_year(mo) == Slice(dataset_runperiod(mo), 3, 7)

dataset_runperiod_runx(mo) ==
    ReplaceWithEmpty(dataset_runperiod(mo), dataset_runperiod_year(mo))

-----------------------------------------------------------------------------
(* JSON values: t is "dict", "list", "int" or "null"; a dict holds its      *)
(* items <<key, value>> in order, a list its elements under the key "".     *)

None == [t |-> "null", n |-> 0, kids |-> <<>>]

JInt(i) == [t |-> "int", n |-> i, kids |-> <<>>]

JList(elems) ==
    [t |-> "list", n |-> 0,
     kids |-> [p \in 1..Len(elems) |-> [k |-> "", v |-> elems[p]]]]

JDict(items) ==
    [t |-> "dict", n |-> 0,
     kids |-> [p \in 1..Len(items) |-> [k |-> items[p][1], v |-> items[p][2]]]]

\* Python truth value of a JSON value
Truthy(x) ==
    CASE x.t = "null" -> FALSE
      [] x.t = "int"  -> x.n # 0
      [] OTHER        -> x.kids # <<>>

HasKey(x, key) == \E p \in 1..Len(x.kids) : x.kids[p].k = key

\* data[akey] for a dict that has the key
Lookup(x, key) ==
    x.kids[CHOOSE p \in 1..Len(x.kids) : x.kids[p].k = key].v

RECURSIVE get_from_deep_json(_, _)
RECURSIVE ScanElems(_, _, _)
RECURSIVE ScanValues(_, _, _)

\* "for elem in ...: aval = get_from_deep_json(elem, akey); if aval: return
\* aval", from element p on; None when the loop ends without a return
ScanElems(kids, p, key) ==
    IF p > Len(kids) THEN None
    ELSE LET found == get_from_deep_json(kids[p].v, key)
         IN IF Truthy(found) THEN found ELSE ScanElems(kids, p + 1, key)

\* "for val in data.values(): ...", from item p on
ScanValues(kids, p, key) ==
    IF p > Len(kids) THEN None
    ELSE LET val == kids[p].v
             found == IF val.t = "dict" THEN get_from_deep_json(val, key)
                      ELSE IF val.t = "list" THEN ScanElems(val.kids, 1, key)
                      ELSE None
         IN IF Truthy(found) THEN found ELSE ScanValues(kids, p + 1, key)

get_from_deep_json(x, key) ==
    IF x.t = "dict"
    THEN IF HasKey(x, key) THEN Lookup(x, key)
         ELSE ScanValues(x.kids, 1, key)
    ELSE IF x.t = "list" THEN ScanElems(x.kids, 1, key)
    ELSE None

-----------------------------------------------------------------------------
(* The DAS JSON store and the numeric fields.  A function that raises is    *)
(* modelled by its result [exc, val]: exc is "none" or the exception.       *)

Returns(v) == [exc |-> "none", val |-> v]

Raises(e) == [exc |-> e, val |-> None]

\* open(filepath) raises FileNotFoundError when the store has no document
get_das_store_json(dataset) ==
    IF dataset \in DOMAIN das_store
    THEN Returns(das_store[dataset])
    ELSE Raises("FileNotFoundError")

\* the numeric lookup without its "return 0"
NumericField_mutant(dataset, key) ==
    LET doc == get_das_store_json(dataset)
    IN IF doc.exc # "none" THEN doc
       ELSE Returns(get_from_deep_json(doc.val, key))

\* get_number_events, get_number_files, get_size: the value found in the DAS
\* document of the dataset if it is truthy, else 0
NumericField(dataset, key) ==
    LET doc == get_das_store_json(dataset)
    IN IF doc.exc # "none" THEN doc
       ELSE LET number == get_from_deep_json(doc.val, key)
            IN IF Truthy(number) THEN Returns(number) ELSE Returns(JInt(0))

get_number_events(dataset) == NumericField(dataset, "nevents")

get_number_files(dataset) == NumericField(dataset, "nfiles")

get_size(dataset) == NumericField(dataset, "size")

-----------------------------------------------------------------------------
(* The loaders.  A dict is a function on its set of keys.                   *)

EmptyDict == [x \in {} |-> <<>>]

DictSet(d, key, v) ==
    [x \in DOMAIN d \cup {key} |-> IF x = key THEN v ELSE d[x]]

\* populate_doiinfo: doi_lines holds the two fields of each line
RECURSIVE DoiInfoAfter(_, _)
DoiInfoAfter(lines, p) ==
    IF p = 0 THEN EmptyDict
    ELSE DictSet(DoiInfoAfter(lines, p - 1), lines[p][1], lines[p][2])

\* values.sort()
Sorted(values) == SortSeq(values, StrLess)

\* what print() appends to standard output
ErrorLine(dataset) == [kind |-> "error", dataset |-> dataset, array |-> <<>>]

JsonArray(recs) == [kind |-> "json", dataset |-> <<>>, array |-> recs]

\* populate_runnumber_cache, after the first p lines of the file: the locals
\* dataset and values, the cache, and what has been printed
RECURSIVE RunNumberLoop(_, _)
RunNumberLoop(lines, p) ==
    IF p = 0
    THEN [dataset |-> <<>>, values |-> <<>>, cache |-> EmptyDict, out |-> <<>>]
    ELSE LET s    == RunNumberLoop(lines, p - 1)
             line == Strip(lines[p])
         IN IF StartsWith(line, <<"/">>)
            THEN [dataset |-> line,
                  values  |-> <<>>,
                  cache   |-> IF s.dataset \notin DOMAIN s.cache
                                 /\ Len(s.values) # 0
                              THEN DictSet(s.cache, s.dataset, Sorted(s.values))
                              ELSE s.cache,
                  out     |-> IF s.dataset \in DOMAIN s.cache
                              THEN Append(s.out, ErrorLine(s.dataset))
                              ELSE s.out]
            ELSE [s EXCEPT !.values = Append(s.values, line)]

\* populate_fwyzard, after the first p lines of the file: hlt_file.lines
\* holds the two fields of each line
RECURSIVE FwyzardAfter(_, _)
FwyzardAfter(lines, p) ==
    IF p = 0 THEN EmptyDict
    ELSE LET d       == FwyzardAfter(lines, p - 1)
             dataset == lines[p][1]
             trigger == lines[p][2]
         IN IF dataset \in DOMAIN d
            THEN DictSet(d, dataset, Append(d[dataset], trigger))
            ELSE DictSet(d, dataset, <<trigger>>)

DotPy == <<".", "p", "y">>

\* populate_recocmssw_cache and populate_recoglobaltag_cache, after the first
\* p lines of their file: lines holds the two fields of each line
RECURSIVE RecoCacheAfter(_, _)
RecoCacheAfter(lines, p) ==
    IF p = 0 THEN EmptyDict
    ELSE DictSet(RecoCacheAfter(lines, p - 1),
                 ReplaceWithEmpty(lines[p][1], DotPy), lines[p][2])

\* populate_selection_descriptions, after the first p rows of the file
RECURSIVE SelectionDescriptionsAfter(_, _)
SelectionDescriptionsAfter(rows, p) ==
    IF p = 0 THEN EmptyDict
    ELSE DictSet(SelectionDescriptionsAfter(rows, p - 1), rows[p][1], rows[p][2])

-----------------------------------------------------------------------------
(* The selection information. *)

\* sub in s
Contains(s, sub) ==
    \E p \in 1..(Len(s) - Len(sub) + 1) : SubSeq(s, p, p + Len(sub) - 1) = sub

\* the test of the loop with the bare name for f"_{dataset}_"
RecoLinkMatches_mutant(dataset, reco_link) == Contains(reco_link, dataset)

\* the test of the loop over LINK_INFO.keys(): f"_{dataset}_" in reco_link
RecoLinkMatches(dataset, reco_link) ==
    Contains(reco_link, <<"_">> \o dataset \o <<"_">>)

\* a paragraph of the text create_selection_information returns
Paragraph(kind, description, reco_link, release, global_tag, link, paths) ==
    [kind |-> kind, description |-> description, reco_link |-> reco_link,
     release |-> release, global_tag |-> global_tag, link |-> link,
     trigger_paths |-> paths]

DescriptionParagraph(description) ==
    Paragraph("description", description, <<>>, <<>>, <<>>, <<>>, <<>>)

recid_hlt_trigger_configuration == 23900

HltParagraph ==
    Paragraph("Data taking / HLT", "", <<>>, <<>>, <<>>,
              Str(recid_hlt_trigger_configuration), <<>>)

RecoParagraph(reco_link, release, global_tag, link) ==
    Paragraph("Data processing / RECO", "", reco_link, release, global_tag,
              link, <<>>)

TriggerPathsParagraph(paths) ==
    Paragraph("HLT trigger paths", "", <<>>, <<>>, <<>>, <<>>, paths)

\* the loop "for reco_link in LINK_INFO.keys()", after the first p items: the
\* paragraphs added to out, or the exception of the first lookup that fails
RECURSIVE RecoLoop(_, _)
RecoLoop(dataset, p) ==
    IF p = 0 THEN [exc |-> "none", val |-> <<>>]
    ELSE LET before    == RecoLoop(dataset, p - 1)
             reco_link == LINK_INFO[p][1]
         IN IF before.exc # "none" THEN before
            ELSE IF ~ RecoLinkMatches(dataset, reco_link) THEN before
            ELSE IF reco_link \notin DOMAIN RECOCMSSW_CACHE
                    \/ reco_link \notin DOMAIN RECOGLOBALTAG_CACHE
            THEN [exc |-> "KeyError", val |-> <<>>]
            ELSE [exc |-> "none",
                  val |-> Append(before.val,
                                 RecoParagraph(reco_link,
                                               RECOCMSSW_CACHE[reco_link],
                                               RECOGLOBALTAG_CACHE[reco_link],
                                               LINK_INFO[p][2]))]

\* FWYZARD.get(dataset, [])
get_trigger_paths_for_dataset(dataset) ==
    IF dataset \in DOMAIN FWYZARD THEN FWYZARD[dataset] ELSE <<>>

\* the trigger path as the loop over trigger_paths prints it
WithoutVersionSuffix(trigger_path) ==
    IF EndsWith(trigger_path, <<"_", "v">>)
    THEN SubSeq(trigger_path, 1, Len(trigger_path) - 2)
    ELSE trigger_path

create_selection_information(dataset, dataset_full_name) ==
    LET description == IF dataset_full_name \in DOMAIN SELECTION_DESCRIPTIONS
                       THEN SELECTION_DESCRIPTIONS[dataset_full_name]
                       ELSE ""
        reco        == RecoLoop(dataset, Len(LINK_INFO))
        paths       == get_trigger_paths_for_dataset(dataset)
    IN IF reco.exc # "none" THEN reco
       ELSE [exc |-> "none",
             val |-> (IF description # ""
                      THEN <<DescriptionParagraph(description)>> ELSE <<>>)
                     \o <<HltParagraph>>
                     \o reco.val
                     \o <<TriggerPathsParagraph(
                            [p \in 1..Len(paths) |->
                                WithoutVersionSuffix(paths[p])])>>]

\* the lists of FWYZARD in place of the rebinding "trigger_path =
\* trigger_path[:-2]": the loop writing the shortened path back into the list
FwyzardAfterSelection_mutant(dataset) ==
    IF dataset \in DOMAIN FWYZARD
    THEN DictSet(FWYZARD, dataset,
                 [p \in 1..Len(FWYZARD[dataset]) |->
                     WithoutVersionSuffix(FWYZARD[dataset][p])])
    ELSE FWYZARD

\* FWYZARD after create_selection_information: FWYZARD.get binds no key, and
\* the loop over the list it returns rebinds its own variable only
FwyzardAfterSelection(dataset) == FWYZARD

-----------------------------------------------------------------------------
(* File-index resolution. *)

XROOTD_URI_BASE == <<"r", "o", "o", "t", ":", "/", "/", "e", "o", "s">>

\* the storage location of a dataset, a string rule over its four fields
get_dataset_location(dataset_full_name) ==
    LET mo == ReMatch(dataset_full_name)
    IN <<"/", "e", "o", "s", "/">> \o dataset_runperiod(mo) \o <<"/">>
       \o dataset_short(mo) \o <<"/">> \o dataset_format(mo) \o <<"/">>
       \o dataset_version(mo)

FileIndexesDir == <<"/", "f", "i", "l", "e", "-", "i", "n", "d", "e", "x",
                    "e", "s", "/">>

DotTxt == <<".", "t", "x", "t">>

DotJson == <<".", "j", "s", "o", "n">>

\* subprocess.getoutput("ls ... | grep ...").split("\n"): the names of the
\* listed files, one per line; an empty output splits into one empty line
OutputLines(dataset_full_name) ==
    IF dataset_full_name \in DOMAIN eos_listing
       /\ eos_listing[dataset_full_name] # <<>>
    THEN [p \in 1..Len(eos_listing[dataset_full_name]) |->
              eos_listing[dataset_full_name][p].name]
    ELSE << <<>> >>

\* the file of the index directory with the given name
EosFile(dataset_full_name, afile) ==
    LET listing == eos_listing[dataset_full_name]
    IN listing[CHOOSE p \in 1..Len(listing) : Strip(listing[p].name) = afile]

get_file_size(dataset_full_name, afile) ==
    EosFile(dataset_full_name, afile).size

get_file_checksum(dataset_full_name, afile) ==
    EosFile(dataset_full_name, afile).checksum

\* get_dataset_index_files, after the first p lines of the listing
RECURSIVE IndexFilesLoop(_, _, _)
IndexFilesLoop(dataset_full_name, lines, p) ==
    IF p = 0 THEN <<>>
    ELSE LET files == IndexFilesLoop(dataset_full_name, lines, p - 1)
             afile == Strip(lines[p])
         IN IF EndsWith(afile, DotTxt) \/ EndsWith(afile, DotJson)
            THEN Append(files,
                        <<XROOTD_URI_BASE
                             \o get_dataset_location(dataset_full_name)
                             \o FileIndexesDir \o afile,
                          get_file_size(dataset_full_name, afile),
                          get_file_checksum(dataset_full_name, afile)>>)
            ELSE files

get_dataset_index_files(dataset_full_name) ==
    LET lines == OutputLines(dataset_full_name)
    IN IndexFilesLoop(dataset_full_name, lines, Len(lines))

\* [f for f in rec_files if f[0].endswith(index_type)]
RECURSIVE FilterByType(_, _)
FilterByType(rec_files, index_type) ==
    IF rec_files = <<>> THEN <<>>
    ELSE IF EndsWith(Head(rec_files)[1], index_type)
         THEN <<Head(rec_files)>> \o FilterByType(Tail(rec_files), index_type)
         ELSE FilterByType(Tail(rec_files), index_type)

\* the entries one index type adds to rec["files"]
FileEntries(rec_files, index_type, short, format) ==
    LET index_files == FilterByType(rec_files, index_type)
    IN [file_number \in 1..Len(index_files) |->
          [checksum    |-> <<"adler32:">> \o index_files[file_number][3],
           description |-> short \o <<" ">> \o format \o <<" file index (">>
                           \o Str(file_number) \o <<" of ">>
                           \o Str(Len(index_files))
                           \o <<") for access to data">>,
           size        |-> index_files[file_number][2],
           type        |-> <<"i", "n", "d", "e", "x">> \o index_type,
           uri         |-> index_files[file_number][1]]]

\* the loop over the index types in the order [".txt", ".json"]
RecFiles_mutant(rec_files, short, format) ==
    FileEntries(rec_files, DotTxt, short, format)
       \o FileEntries(rec_files, DotJson, short, format)

\* rec["files"]: for index_type in [".json", ".txt"]
RecFiles(rec_files, short, format) ==
    FileEntries(rec_files, DotJson, short, format)
       \o FileEntries(rec_files, DotTxt, short, format)

-----------------------------------------------------------------------------
(* The record builder. *)

\* the names bound at module level when create_record runs
ModuleGlobals ==
    {"recid_freerange_start", "recid_validated_runs_full_validation",
     "recid_validated_runs_muons_only", "recid_hlt_trigger_configuration",
     "global_tag", "cmssw_release", "collision_energy", "collision_type",
     "year_published", "FWYZARD", "SELECTION_DESCRIPTIONS", "LINK_INFO",
     "DOI_INFO", "RUNNUMBER_CACHE", "CONTAINERIMAGES_CACHE",
     "RECOCMSSW_CACHE", "RECOGLOBALTAG_CACHE"}

\* the names bound in create_record when the match has failed
CreateRecordLocals == {"recid", "dataset_full_name", "rec", "m"}

Outcome(e, out, recs) == [exc |-> e, out |-> out, recs |-> recs]

\* "if not m:" of create_record: the f-string reads the name dataset before
\* print and sys.exit are called
ParseFailure(dataset_full_name) ==
    IF "dataset" \in CreateRecordLocals \cup ModuleGlobals
    THEN Outcome("SystemExit", <<ErrorLine(dataset_full_name)>>, <<>>)
    ELSE Outcome("NameError", <<>>, <<>>)

\* DOI_INFO.get(dataset_full_name, ""): a lookup that defaults
get_doi_mutant(dataset_full_name) ==
    IF dataset_full_name \in DOMAIN DOI_INFO
    THEN [exc |-> "none", val |-> DOI_INFO[dataset_full_name]]
    ELSE [exc |-> "none", val |-> ""]

\* DOI_INFO[dataset_full_name]
get_doi(dataset_full_name) ==
    IF dataset_full_name \in DOMAIN DOI_INFO
    THEN [exc |-> "none", val |-> DOI_INFO[dataset_full_name]]
    ELSE [exc |-> "KeyError", val |-> <<>>]

cmssw_release == "CMSSW_7_5_8_patch3"

\* the record of a dataset whose lookups have all succeeded
BuildRecord(id, dataset_full_name, mo, number_events, number_files, size, doi, methodology) ==
    LET short  == dataset_short(mo)
        format == dataset_format(mo)
        year   == dataset_runperiod_year(mo)
        runx   == dataset_runperiod_runx(mo)
    IN [abstract         |-> <<"<p>">> \o short \o <<" primary dataset in ">>
                             \o format \o <<" format from ">> \o runx
                             \o <<" of ">> \o year \o <<". Run period ...">>,
        date_created     |-> <<year>>,
        date_reprocessed |-> year,
        distribution     |-> [number_events |-> number_events,
                              number_files  |-> number_files,
                              size          |-> size],
        doi              |-> doi,
        files            |-> RecFiles(get_dataset_index_files(dataset_full_name),
                                      short, format),
        methodology      |-> methodology,
        recid            |-> Str(id),
        has_run_numbers  |-> dataset_full_name \in DOMAIN RUNNUMBER_CACHE,
        run_numbers      |-> IF dataset_full_name \in DOMAIN RUNNUMBER_CACHE
                             THEN RUNNUMBER_CACHE[dataset_full_name]
                             ELSE <<>>,
        run_period       |-> <<dataset_runperiod(mo)>>,
        has_container_images |-> cmssw_release \in DOMAIN CONTAINERIMAGES_CACHE,
        container_images |-> IF cmssw_release \in DOMAIN CONTAINERIMAGES_CACHE
                             THEN CONTAINERIMAGES_CACHE[cmssw_release]
                             ELSE <<>>,
        title            |-> dataset_full_name,
        title_additional |-> short \o <<" primary dataset in ">> \o format
                             \o <<" format from ">> \o runx \o <<" of ">>
                             \o year \o <<" (">> \o dataset_full_name
                             \o <<")">>,
        vm_url           |-> <<"/docs/cms-virtual-machine-">> \o year]

\* create_record(recid, dataset_full_name): the first statement that raises
\* ends the call
create_record(id, dataset_full_name) ==
    LET mo            == ReMatch(dataset_full_name)
        number_events == get_number_events(dataset_full_name)
        number_files  == get_number_files(dataset_full_name)
        size          == get_size(dataset_full_name)
        doi           == get_doi(dataset_full_name)
        methodology   == create_selection_information(dataset_short(mo),
                                                      dataset_full_name)
    IN IF ~ mo.ok THEN ParseFailure(dataset_full_name)
       ELSE IF number_events.exc # "none"
       THEN Outcome(number_events.exc, <<>>, <<>>)
       ELSE IF number_files.exc # "none"
       THEN Outcome(number_files.exc, <<>>, <<>>)
       ELSE IF size.exc # "none" THEN Outcome(size.exc, <<>>, <<>>)
       ELSE IF doi.exc # "none" THEN Outcome(doi.exc, <<>>, <<>>)
       ELSE IF methodology.exc # "none"
       THEN Outcome(methodology.exc, <<>>, <<>>)
       ELSE Outcome("none", <<>>,
                    <<BuildRecord(id, dataset_full_name, mo, number_events.val,
                                  number_files.val, size.val, doi.val,
                                  methodology.val)>>)

-----------------------------------------------------------------------------
(* The inputs the model draws from. *)

\* "/Z/Run2015E-v1/A" and "/J/HIRun2015-v1/A"
D1 == <<"/", "Z", "/", "R", "u", "n", "2", "0", "1", "5", "E", "-", "v", "1",
        "/", "A">>

D2 == <<"/", "J", "/", "H", "I", "R", "u", "n", "2", "0", "1", "5", "-", "v",
        "1", "/", "A">>

\* "Z-v1", which the pattern rejects
BadId == <<"Z", "-", "v", "1">>

\* lines of the target-dataset file as readlines() returns them
LinePool == {D1 \o <<"\n">>, <<" ">> \o D2 \o <<" ", "\n">>,
             BadId \o <<"\n">>, <<"\n">>}

SeqsUpTo(S, n) == UNION {[1..k -> S] : k \in 0..n}

DoiFiles ==
    {<<>>, << <<D1, "10.7483/A">> >>, << <<D2, "10.7483/B">> >>,
     << <<D1, "10.7483/X">>, <<D2, "10.7483/B">>, <<D1, "10.7483/A">> >>}

DocFull ==
    JList(<<JDict(<< <<"summary",
                      JList(<<JDict(<< <<"nevents", JInt(5)>>,
                                       <<"nfiles", JInt(2)>>,
                                       <<"size", JInt(9)>> >>)>>)>> >>)>>)

DocNoKeys == JList(<<JDict(<< <<"name", JInt(1)>> >>)>>)

DasDocs == {DocFull, DocNoKeys}

DasStores == UNION {[S -> DasDocs] : S \in SUBSET {D1, D2}}

Run9 == <<"9", "\n">>

Run10 == <<"1", "0", "\n">>

AllrunsFiles ==
    {<<>>,
     <<D1 \o <<"\n">>, Run9, Run10>>,
     <<D1 \o <<"\n">>, Run9, Run10, D2 \o <<"\n">>, Run9>>,
     <<D1 \o <<"\n">>, Run9, D2 \o <<"\n">>, Run10, D1 \o <<"\n">>, Run9,
       D2 \o <<"\n">> >>}

EosFileOf(name, size, checksum) ==
    [name |-> name, size |-> size, checksum |-> <<checksum>>]

FilePool ==
    {EosFileOf(<<"a">> \o DotJson, 10, "00a10003"),
     EosFileOf(<<"b">> \o DotJson, 20, "00b20004"),
     EosFileOf(<<"a">> \o DotTxt, 30, "00c30005"),
     EosFileOf(<<"b">> \o DotTxt, 40, "00d40006"),
     EosFileOf(<<"c", ".", "m", "d">>, 50, "00e50007")}

\* ls lists each file once, in the order of the locale's collation
Listings(n) ==
    {l \in SeqsUpTo(FilePool, n) :
        \A p, q \in 1..Len(l) : p # q => l[p] # l[q]}

ListingSample ==
    <<EosFileOf(<<"a">> \o DotJson, 10, "00a10003"),
      EosFileOf(<<"a">> \o DotTxt, 30, "00c30005"),
      EosFileOf(<<"b">> \o DotJson, 20, "00b20004")>>

EosSamples == {[d \in {D1, D2} |-> <<>>], [d \in {D1, D2} |-> ListingSample]}

\* names of reco configuration files, without ".py": "r_Z_1", "r_Z_2",
\* "r_J_1", "r_ZZ_1" and "x_Z"
K_Z_1  == <<"r", "_", "Z", "_", "1">>
K_Z_2  == <<"r", "_", "Z", "_", "2">>
K_J_1  == <<"r", "_", "J", "_", "1">>
K_ZZ_1 == <<"r", "_", "Z", "Z", "_", "1">>
K_x_Z  == <<"x", "_", "Z">>

KeyOrder == <<K_Z_1, K_J_1, K_Z_2, K_ZZ_1, K_x_Z>>

KeyPool == {KeyOrder[p] : p \in 1..Len(KeyOrder)}

Position(k) == CHOOSE p \in 1..Len(KeyOrder) : KeyOrder[p] = k

\* a reco-config-files-*.csv file with one line for every key of S
RecoLines(S, prefix) ==
    LET keys == SelectSeq(KeyOrder, LAMBDA k : k \in S)
    IN [p \in 1..Len(keys) |-> <<keys[p] \o DotPy, <<prefix>> \o keys[p]>>]

\* the dict of reco_config_files_link_info.py with the keys of the sequence ks
LinkInfoOf(ks) == [p \in 1..Len(ks) |-> <<ks[p], Str(Position(ks[p]))>>]

\* the sequences without repetition of at most n keys
Injective(n) ==
    {ks \in SeqsUpTo(KeyPool, n) :
        \A p, q \in 1..Len(ks) : ks[p] = ks[q] => p = q}

HltSample ==
    [exists |-> TRUE,
     lines  |-> << <<<<"Z">>, <<"H", "1", "_", "v">>>>,
                   <<<<"J">>, <<"H", "2">>>>,
                   <<<<"Z">>, <<"H", "3">>>> >>]

HltAbsent == [exists |-> FALSE, lines |-> <<>>]

SelectionSample ==
    [exists |-> TRUE, rows |-> << <<D1, "Z events">> >>]

SelectionAbsent == [exists |-> FALSE, rows |-> <<>>]

ContainerImagesSample ==
    [r \in {cmssw_release, "CMSSW_5_3_32"} |-> <<"docker", "singularity">>]

ConfigOf(hlt, images, cmssw, globaltag, selection, links) ==
    [hlt |-> hlt, images |-> images, cmssw |-> cmssw, globaltag |-> globaltag,
     selection |-> selection, links |-> links]

\* the configurations main is run with: a complete one, one without the
\* optional files, one whose release table lacks a linked configuration file
ConfigSamples ==
    {ConfigOf(HltSample, ContainerImagesSample,
              RecoLines({K_Z_1, K_J_1, K_Z_2}, "CMSSW_"),
              RecoLines({K_Z_1, K_J_1, K_Z_2}, "75X_"),
              SelectionSample, LinkInfoOf(<<K_Z_1, K_J_1, K_Z_2>>)),
     ConfigOf(HltAbsent, EmptyDict, <<>>, <<>>, SelectionAbsent, <<>>),
     ConfigOf(HltSample, ContainerImagesSample,
              RecoLines({K_J_1}, "CMSSW_"),
              RecoLines({K_Z_1, K_J_1}, "75X_"),
              SelectionSample, LinkInfoOf(<<K_Z_1, K_J_1>>))}

\* the files and the module-level LINK_INFO are those of configuration c
ConfigIs(c) ==
    /\ hlt_file = c.hlt
    /\ containerimages_file = c.images
    /\ recocmssw_lines = c.cmssw
    /\ recoglobaltag_lines = c.globaltag
    /\ selection_file = c.selection
    /\ LINK_INFO = c.links

\* the caches as the loaders of main leave them
CachesLoaded ==
    /\ FWYZARD = IF hlt_file.exists
                 THEN FwyzardAfter(hlt_file.lines, Len(hlt_file.lines))
                 ELSE EmptyDict
    /\ CONTAINERIMAGES_CACHE = containerimages_file
    /\ RECOCMSSW_CACHE = RecoCacheAfter(recocmssw_lines, Len(recocmssw_lines))
    /\ RECOGLOBALTAG_CACHE =
           RecoCacheAfter(recoglobaltag_lines, Len(recoglobaltag_lines))
    /\ SELECTION_DESCRIPTIONS =
           IF selection_file.exists
           THEN SelectionDescriptionsAfter(selection_file.rows,
                                           Len(selection_file.rows))
           ELSE EmptyDict

-----------------------------------------------------------------------------
(* main(). *)

NoCall == /\ data = None /\ akey = "" /\ aval = None
          /\ m = NoMatch /\ rec = <<>>

Init ==
    /\ target_lines \in SeqsUpTo(LinePool, MaxDatasets)
    /\ doi_lines \in DoiFiles
    /\ allruns_lines \in AllrunsFiles
    /\ das_store \in DasStores
    /\ eos_listing \in EosSamples
    /\ \E c \in ConfigSamples : ConfigIs(c)
    /\ pc = "populate_fwyzard"
    /\ DOI_INFO = EmptyDict
    /\ RUNNUMBER_CACHE = EmptyDict
    /\ FWYZARD = EmptyDict
    /\ SELECTION_DESCRIPTIONS = EmptyDict
    /\ CONTAINERIMAGES_CACHE = EmptyDict
    /\ RECOCMSSW_CACHE = EmptyDict
    /\ RECOGLOBALTAG_CACHE = EmptyDict
    /\ dataset_full_names = <<>>
    /\ records = <<>>
    /\ recid = recid_freerange_start
    /\ stdout = <<>>
    /\ exc = "none"
    /\ NoCall

populate_fwyzard ==
    /\ pc = "populate_fwyzard"
    /\ FWYZARD' = IF hlt_file.exists
                  THEN FwyzardAfter(hlt_file.lines, Len(hlt_file.lines))
                  ELSE FWYZARD
    /\ pc' = "populate_doiinfo"
    /\ UNCHANGED <<target_lines, doi_lines, allruns_lines, das_store,
                   eos_listing, config, DOI_INFO, RUNNUMBER_CACHE,
                   SELECTION_DESCRIPTIONS, LINK_INFO, CONTAINERIMAGES_CACHE,
                   RECOCMSSW_CACHE, RECOGLOBALTAG_CACHE, dataset_full_names,
                   records, recid, stdout, exc, data, akey, aval, m, rec>>

populate_doiinfo ==
    /\ pc = "populate_doiinfo"
    /\ DOI_INFO' = DoiInfoAfter(doi_lines, Len(doi_lines))
    /\ pc' = "populate_runnumber_cache"
    /\ UNCHANGED <<target_lines, doi_lines, allruns_lines, das_store,
                   eos_listing, config, RUNNUMBER_CACHE, FWYZARD,
                   SELECTION_DESCRIPTIONS, LINK_INFO, CONTAINERIMAGES_CACHE,
                   RECOCMSSW_CACHE, RECOGLOBALTAG_CACHE, dataset_full_names,
                   records, recid, stdout, exc, data, akey, aval, m, rec>>

populate_runnumber_cache ==
    /\ pc = "populate_runnumber_cache"
    /\ LET s == RunNumberLoop(allruns_lines, Len(allruns_lines))
       IN /\ RUNNUMBER_CACHE' = s.cache
          /\ stdout' = stdout \o s.out
    /\ pc' = "populate_containerimages_cache"
    /\ UNCHANGED <<target_lines, doi_lines, allruns_lines, das_store,
                   eos_listing, config, DOI_INFO, FWYZARD,
                   SELECTION_DESCRIPTIONS, LINK_INFO, CONTAINERIMAGES_CACHE,
                   RECOCMSSW_CACHE, RECOGLOBALTAG_CACHE, dataset_full_names,
                   records, recid, exc, data, akey, aval, m, rec>>

populate_containerimages_cache ==
    /\ pc = "populate_containerimages_cache"
    /\ CONTAINERIMAGES_CACHE' = containerimages_file
    /\ pc' = "populate_recocmssw_cache"
    /\ UNCHANGED <<target_lines, doi_lines, allruns_lines, das_store,
                   eos_listing, config, DOI_INFO, RUNNUMBER_CACHE, FWYZARD,
                   SELECTION_DESCRIPTIONS, LINK_INFO, RECOCMSSW_CACHE,
                   RECOGLOBALTAG_CACHE, dataset_full_names, records, recid,
                   stdout, exc, data, akey, aval, m, rec>>

populate_recocmssw_cache ==
    /\ pc = "populate_recocmssw_cache"
    /\ RECOCMSSW_CACHE' = RecoCacheAfter(recocmssw_lines, Len(recocmssw_lines))
    /\ pc' = "populate_recoglobaltag_cache"
    /\ UNCHANGED <<target_lines, doi_lines, allruns_lines, das_store,
                   eos_listing, config, DOI_INFO, RUNNUMBER_CACHE, FWYZARD,
                   SELECTION_DESCRIPTIONS, LINK_INFO, CONTAINERIMAGES_CACHE,
                   RECOGLOBALTAG_CACHE, dataset_full_names, records, recid,
                   stdout, exc, data, akey, aval, m, rec>>

populate_recoglobaltag_cache ==
    /\ pc = "populate_recoglobaltag_cache"
    /\ RECOGLOBALTAG_CACHE' =
           RecoCacheAfter(recoglobaltag_lines, Len(recoglobaltag_lines))
    /\ pc' = "populate_selection_descriptions"
    /\ UNCHANGED <<target_lines, doi_lines, allruns_lines, das_store,
                   eos_listing, config, DOI_INFO, RUNNUMBER_CACHE, FWYZARD,
                   SELECTION_DESCRIPTIONS, LINK_INFO, CONTAINERIMAGES_CACHE,
                   RECOCMSSW_CACHE, dataset_full_names, records, recid,
                   stdout, exc, data, akey, aval, m, rec>>

populate_selection_descriptions ==
    /\ pc = "populate_selection_descriptions"
    /\ SELECTION_DESCRIPTIONS' =
           IF selection_file.exists
           THEN SelectionDescriptionsAfter(selection_file.rows,
                                           Len(selection_file.rows))
           ELSE SELECTION_DESCRIPTIONS
    /\ pc' = "read_targets"
    /\ UNCHANGED <<target_lines, doi_lines, allruns_lines, das_store,
                   eos_listing, config, DOI_INFO, RUNNUMBER_CACHE, FWYZARD,
                   LINK_INFO, CONTAINERIMAGES_CACHE, RECOCMSSW_CACHE,
                   RECOGLOBALTAG_CACHE, dataset_full_names, records, recid,
                   stdout, exc, data, akey, aval, m, rec>>

\* main: dataset_full_names.append(line.strip()) for every line, and the
\* first two statements of create_records
read_targets ==
    /\ pc = "read_targets"
    /\ dataset_full_names' =
           [p \in 1..Len(target_lines) |-> Strip(target_lines[p])]
    /\ records' = <<>>
    /\ recid' = recid_freerange_start
    /\ pc' = "create_records"
    /\ UNCHANGED <<target_lines, doi_lines, allruns_lines, das_store,
                   eos_listing, config, DOI_INFO, RUNNUMBER_CACHE, FWYZARD,
                   SELECTION_DESCRIPTIONS, LINK_INFO, CONTAINERIMAGES_CACHE,
                   RECOCMSSW_CACHE, RECOGLOBALTAG_CACHE, stdout, exc,
                   data, akey, aval, m, rec>>

\* the loop of create_records without "recid += 1"
NextRecid_mutant(id) == id

\* the recid of the next iteration
NextRecid(id) == id + 1

\* the loop of create_records with records.insert(0, ...) for records.append
create_records_step_mutant ==
    /\ pc = "create_records"
    /\ Len(records) < Len(dataset_full_names)
    /\ LET dataset_full_name == dataset_full_names[Len(records) + 1]
           r == create_record(recid, dataset_full_name)
           mo == ReMatch(dataset_full_name)
       IN /\ FWYZARD' = IF r.exc = "none"
                         THEN FwyzardAfterSelection(dataset_short(mo))
                         ELSE FWYZARD
          /\ IF r.exc = "none"
             THEN /\ records' = r.recs \o records
                  /\ recid' = NextRecid(recid)
                  /\ UNCHANGED <<pc, exc, stdout>>
             ELSE /\ exc' = r.exc
                  /\ stdout' = stdout \o r.out
                  /\ pc' = "raised"
                  /\ UNCHANGED <<records, recid>>
    /\ UNCHANGED <<target_lines, doi_lines, allruns_lines, das_store,
                   eos_listing, config, DOI_INFO, RUNNUMBER_CACHE,
                   SELECTION_DESCRIPTIONS, LINK_INFO, CONTAINERIMAGES_CACHE,
                   RECOCMSSW_CACHE, RECOGLOBALTAG_CACHE, dataset_full_names,
                   data, akey, aval, m, rec>>

\* one iteration of the loop of create_records
create_records_step ==
    /\ pc = "create_records"
    /\ Len(records) < Len(dataset_full_names)
    /\ LET dataset_full_name == dataset_full_names[Len(records) + 1]
           r == create_record(recid, dataset_full_name)
           mo == ReMatch(dataset_full_name)
       IN /\ FWYZARD' = IF r.exc = "none"
                         THEN FwyzardAfterSelection(dataset_short(mo))
                         ELSE FWYZARD
          /\ IF r.exc = "none"
             THEN /\ records' = records \o r.recs
                  /\ recid' = NextRecid(recid)
                  /\ UNCHANGED <<pc, exc, stdout>>
             ELSE /\ exc' = r.exc
                  /\ stdout' = stdout \o r.out
                  /\ pc' = "raised"
                  /\ UNCHANGED <<records, recid>>
    /\ UNCHANGED <<target_lines, doi_lines, allruns_lines, das_store,
                   eos_listing, config, DOI_INFO, RUNNUMBER_CACHE,
                   SELECTION_DESCRIPTIONS, LINK_INFO, CONTAINERIMAGES_CACHE,
                   RECOCMSSW_CACHE, RECOGLOBALTAG_CACHE, dataset_full_names,
                   data, akey, aval, m, rec>>

\* create_records returns and main calls print_records(records)
print_records ==
    /\ pc = "create_records"
    /\ Len(records) = Len(dataset_full_names)
    /\ stdout' = Append(stdout, JsonArray(records))
    /\ pc' = "done"
    /\ UNCHANGED <<target_lines, doi_lines, allruns_lines, das_store,
                   eos_listing, config, DOI_INFO, RUNNUMBER_CACHE, FWYZARD,
                   SELECTION_DESCRIPTIONS, LINK_INFO, CONTAINERIMAGES_CACHE,
                   RECOCMSSW_CACHE, RECOGLOBALTAG_CACHE, dataset_full_names,
                   records, recid, exc, data, akey, aval, m, rec>>

Next ==
    \/ populate_fwyzard
    \/ populate_doiinfo
    \/ populate_runnumber_cache
    \/ populate_containerimages_cache
    \/ populate_recocmssw_cache
    \/ populate_recoglobaltag_cache
    \/ populate_selection_descriptions
    \/ read_targets
    \/ create_records_step
    \/ print_records

Spec == Init /\ [][Next]_vars

-----------------------------------------------------------------------------
(* One call of create_record on its own, with a DOI entry and a DAS         *)
(* document for the dataset: either the identifier or the listing of its    *)
(* index files ranges over all bounded values.                              *)

IdAlphabet == {"/", "-", "R", "2"}

Ident(short, runperiod, version, format) ==
    <<"/">> \o short \o <<"/">> \o runperiod \o <<"-">> \o version
       \o <<"/">> \o format

RunPeriods ==
    {<<"R", "u", "n", "2", "0", "1", "5", "E">>,
     <<"H", "I", "R", "u", "n", "2", "0", "1", "5">>,
     <<"R", "u", "n", "2", "0", "1", "5">>,
     <<"R", "u", "n", "2", "0">>,
     <<"R", "u", "n", "2", "0", "1", "5", "2", "0", "1", "5">>,
     <<"1", "5", "R", "1", "5", "R", "1", "5", "R", "1">>,
     <<"a", "a", "b", "a", "b", "b", "b">>}

SampleIdents ==
    {Ident(short, runperiod, <<"v", "1">>, <<"A">>) :
        short \in {<<"Z">>, <<"Z", "/", "Y">>}, runperiod \in RunPeriods}

InitRecord ==
    /\ \/ /\ dataset_full_names \in
                {<<d>> : d \in SeqsUpTo(IdAlphabet, MaxIdLen) \cup SampleIdents}
          /\ eos_listing = [d \in {dataset_full_names[1]} |-> ListingSample]
       \/ /\ dataset_full_names = <<D1>>
          /\ eos_listing \in {[d \in {D1} |-> l] : l \in Listings(MaxListing)}
    /\ target_lines = dataset_full_names
    /\ doi_lines = << <<dataset_full_names[1], "10.7483/A">> >>
    /\ allruns_lines = <<>>
    /\ das_store = [d \in {dataset_full_names[1]} |-> DocFull]
    /\ ConfigIs(ConfigOf(HltSample, ContainerImagesSample,
                         RecoLines({K_Z_1, K_J_1, K_Z_2}, "CMSSW_"),
                         RecoLines({K_Z_1, K_J_1, K_Z_2}, "75X_"),
                         SelectionSample, LinkInfoOf(<<K_Z_1, K_J_1, K_Z_2>>)))
    /\ CachesLoaded
    /\ pc = "call"
    /\ DOI_INFO = DoiInfoAfter(doi_lines, 1)
    /\ RUNNUMBER_CACHE = EmptyDict
    /\ records = <<>>
    /\ recid = recid_freerange_start
    /\ stdout = <<>>
    /\ exc = "none"
    /\ NoCall

call_create_record ==
    /\ pc = "call"
    /\ m' = ReMatch(dataset_full_names[1])
    /\ LET r == create_record(recid, dataset_full_names[1])
       IN /\ rec' = r.recs
          /\ exc' = r.exc
          /\ stdout' = stdout \o r.out
    /\ pc' = "returned"
    /\ UNCHANGED <<target_lines, doi_lines, allruns_lines, das_store,
                   eos_listing, config, DOI_INFO, RUNNUMBER_CACHE, FWYZARD,
                   SELECTION_DESCRIPTIONS, LINK_INFO, CONTAINERIMAGES_CACHE,
                   RECOCMSSW_CACHE, RECOGLOBALTAG_CACHE, dataset_full_names,
                   records, recid, data, akey, aval>>

NextRecord == call_create_record

SpecRecord == InitRecord /\ [][NextRecord]_vars

-----------------------------------------------------------------------------
(* One call of create_record for "/Z/Run2015E-v1/A", under every LINK_INFO  *)
(* of at most MaxLinks configuration files and every pair of release and    *)
(* global-tag tables in which the second holds all files or those of the    *)
(* first.                                                                   *)

InitSelection ==
    /\ dataset_full_names = <<D1>>
    /\ target_lines = dataset_full_names
    /\ doi_lines = << <<D1, "10.7483/A">> >>
    /\ allruns_lines = <<>>
    /\ das_store = [d \in {D1} |-> DocFull]
    /\ eos_listing = [d \in {D1} |-> ListingSample]
    /\ \E ks \in Injective(MaxLinks), S \in SUBSET KeyPool :
           \E T \in {S, KeyPool} :
               ConfigIs(ConfigOf(HltSample, ContainerImagesSample,
                                 RecoLines(S, "CMSSW_"), RecoLines(T, "75X_"),
                                 SelectionSample, LinkInfoOf(ks)))
    /\ CachesLoaded
    /\ pc = "call"
    /\ DOI_INFO = DoiInfoAfter(doi_lines, 1)
    /\ RUNNUMBER_CACHE = EmptyDict
    /\ records = <<>>
    /\ recid = recid_freerange_start
    /\ stdout = <<>>
    /\ exc = "none"
    /\ NoCall

NextSelection == call_create_record

SpecSelection == InitSelection /\ [][NextSelection]_vars

-----------------------------------------------------------------------------
(* One call of get_from_deep_json on its own: a small document is wrapped   *)
(* in further dicts and lists, beside siblings, and then searched.          *)

JsonKeys == {"nevents", "x"}

Scalars == {None, JInt(0), JInt(7)}

BaseDocs ==
    Scalars
      \cup {JDict(<<>>), JList(<<>>)}
      \cup {JDict(<< <<k, v>> >>) : k \in JsonKeys, v \in Scalars}
      \cup {JList(<<v>>) : v \in Scalars}

Siblings ==
    {JInt(7), JDict(<< <<"nevents", JInt(3)>> >>),
     JList(<<JDict(<< <<"nevents", JInt(0)>> >>)>>)}

\* the documents that hold x directly: in a dict under a key, alone or beside
\* a sibling under the other key, or in a list, alone or beside a sibling
Wraps(x) ==
    {JDict(<< <<k, x>> >>) : k \in JsonKeys}
      \cup UNION {{JDict(<< <<k, x>>, <<j, sib>> >>) :
                      j \in JsonKeys \ {k}, sib \in Siblings} : k \in JsonKeys}
      \cup UNION {{JDict(<< <<j, sib>>, <<k, x>> >>) :
                      j \in JsonKeys \ {k}, sib \in Siblings} : k \in JsonKeys}
      \cup {JList(<<x>>)}
      \cup {JList(<<x, sib>>) : sib \in Siblings}
      \cup {JList(<<sib, x>>) : sib \in Siblings}

RECURSIVE Depth(_)
Depth(x) ==
    IF x.kids = <<>> THEN 0
    ELSE 1 + Depth(x.kids[CHOOSE p \in 1..Len(x.kids) :
                      \A q \in 1..Len(x.kids) :
                         Depth(x.kids[q].v) <= Depth(x.kids[p].v)].v)

InitDeep ==
    /\ data \in BaseDocs
    /\ akey = "nevents"
    /\ aval = None
    /\ pc = "build"
    /\ target_lines = <<>> /\ doi_lines = <<>> /\ allruns_lines = <<>>
    /\ das_store = EmptyDict /\ eos_listing = EmptyDict
    /\ ConfigIs(ConfigOf(HltAbsent, EmptyDict, <<>>, <<>>, SelectionAbsent, <<>>))
    /\ CachesLoaded
    /\ DOI_INFO = EmptyDict /\ RUNNUMBER_CACHE = EmptyDict
    /\ dataset_full_names = <<>> /\ records = <<>>
    /\ recid = recid_freerange_start
    /\ stdout = <<>> /\ exc = "none" /\ m = NoMatch /\ rec = <<>>

DeepUnchanged ==
    UNCHANGED <<target_lines, doi_lines, allruns_lines, das_store,
                eos_listing, config, DOI_INFO, RUNNUMBER_CACHE, FWYZARD,
                SELECTION_DESCRIPTIONS, LINK_INFO, CONTAINERIMAGES_CACHE,
                RECOCMSSW_CACHE, RECOGLOBALTAG_CACHE, dataset_full_names,
                records, recid, stdout, exc, m, rec, akey>>

wrap_document ==
    /\ pc = "build"
    /\ Depth(data) <= MaxWrap
    /\ data' \in Wraps(data)
    /\ UNCHANGED <<pc, aval>>
    /\ DeepUnchanged

call_get_from_deep_json ==
    /\ pc = "build"
    /\ aval' = get_from_deep_json(data, akey)
    /\ pc' = "searched"
    /\ UNCHANGED data
    /\ DeepUnchanged

NextDeep == wrap_document \/ call_get_from_deep_json

SpecDeep == InitDeep /\ [][NextDeep]_vars

-----------------------------------------------------------------------------
(* Vocabulary of the properties. *)

DigitValue(c) == CHOOSE d \in 0..9 : DigitChar(d) = c

RECURSIVE DecimalValue(_)
DecimalValue(s) ==
    IF s = <<>> THEN 0
    ELSE 10 * DecimalValue(SubSeq(s, 1, Len(s) - 1)) + DigitValue(s[Len(s)])

IsDecimal(s) == s # <<>> /\ \A p \in 1..Len(s) : s[p] \in Digits

\* the identifiers of the input list: its lines without the surrounding
\* whitespace
InputIdentifiers == [k \in 1..Len(target_lines) |-> Strip(target_lines[k])]

\* the identifier create_records is at
Current == dataset_full_names[Len(records) + 1]

Serialized == \E p \in 1..Len(stdout) : stdout[p].kind = "json"

\* the key is a mapping key somewhere in x
RECURSIVE KeyOccurs(_, _)
KeyOccurs(x, key) ==
    \/ x.t = "dict" /\ HasKey(x, key)
    \/ \E p \in 1..Len(x.kids) : KeyOccurs(x.kids[p].v, key)

\* the values the key is mapped to anywhere in x
RECURSIVE OccurrenceValues(_, _)
OccurrenceValues(x, key) ==
    (IF x.t = "dict" /\ HasKey(x, key) THEN {Lookup(x, key)} ELSE {})
       \cup UNION {OccurrenceValues(x.kids[p].v, key) : p \in 1..Len(x.kids)}

-----------------------------------------------------------------------------
(* The properties. *)

\* C1: the record at position i (0-based) of a run has the recid str(24600 + i),
\* a five-digit decimal string, so no two records of a run share a recid.
C1_RecidsSequential ==
    /\ \A i \in 1..Len(records) :
          /\ IsDecimal(records[i].recid)
          /\ Len(records[i].recid) = 5
          /\ DecimalValue(records[i].recid) = 24600 + (i - 1)
    /\ \A i, j \in 1..Len(records) :
          i # j => records[i].recid # records[j].recid
    /\ pc = "done" => stdout[Len(stdout)] = JsonArray(records)

C1_Witness ==
    pc = "done" /\ exc = "none" /\ Len(records) >= 2

\* C2: on a successful run the emitted array has one record per line of the
\* target-dataset file, and the title of the k-th record is the k-th
\* identifier of the input list.
C2_OneRecordPerLineInOrder ==
    pc = "done" =>
       LET array == stdout[Len(stdout)].array
       IN /\ stdout[Len(stdout)].kind = "json"
          /\ Len(array) = Len(target_lines)
          /\ \A k \in 1..Len(array) : array[k].title = InputIdentifiers[k]

C2_Witness ==
    /\ pc = "done"
    /\ Len(target_lines) >= 2
    /\ target_lines[1] # target_lines[2]
    /\ \E k \in 1..Len(target_lines) : InputIdentifiers[k] # target_lines[k]

\* C3: on every run that completes, standard output holds the JSON array of
\* the records and nothing else.
C3_StdoutIsOneJsonArray ==
    pc = "done" => stdout = <<JsonArray(records)>>

\* C4: an identifier that does not match the pattern makes create_record
\* print the diagnostic and exit: the run ends there with the diagnostic
\* printed and no records serialized.
C4_ParseFailureDiagnosticAndExit ==
    (pc = "raised" /\ ~ ReMatch(Current).ok) =>
       /\ exc = "SystemExit"
       /\ stdout # <<>>
       /\ stdout[Len(stdout)] = ErrorLine(Current)
       /\ ~ Serialized

NumericFields(r) ==
    <<r.distribution.number_events, r.distribution.number_files,
      r.distribution.size>>

NumericKeys == <<"nevents", "nfiles", "size">>

C7_DeepSearchFindsAnyOccurrence ==
    pc = "searched" =>
       IF KeyOccurs(data, akey)
       THEN aval \in OccurrenceValues(data, akey)
       ELSE aval = None

\* C8: the four components of an identifier the pattern accepts, put back
\* together with the separators, are the identifier.
C8_ParseRoundTrip ==
    (pc = "returned" /\ m.ok) =>
       /\ rec # <<>>
       /\ rec[1].run_period = <<dataset_runperiod(m)>>
       /\ <<"/">> \o dataset_short(m) \o <<"/">> \o rec[1].run_period[1]
             \o <<"-">> \o dataset_version(m) \o <<"/">> \o dataset_format(m)
          = dataset_full_names[1]

C8_Witness ==
    /\ pc = "returned" /\ m.ok
    /\ \E p \in 1..Len(dataset_short(m)) : dataset_short(m)[p] = "/"
    /\ \E p \in 1..Len(dataset_version(m)) : dataset_version(m)[p] = "-"

IsJsonName(name) == EndsWith(name, DotJson)

IsTxtName(name) == EndsWith(name, DotTxt)

\* the names of the listing of the dataset of the call, in listing order
ListedNames ==
    [p \in 1..Len(eos_listing[dataset_full_names[1]]) |->
        eos_listing[dataset_full_names[1]][p].name]

\* the end of the description of a files entry: "(i of n) for access to data"
DescribedAs(entry, i, n) ==
    /\ Len(entry.description) >= 5
    /\ SubSeq(entry.description, Len(entry.description) - 4,
              Len(entry.description))
       = <<" file index (", DigitChar(i), " of ", DigitChar(n),
           ") for access to data">>

C10_YearIsFourDigits ==
    (pc = "returned" /\ m.ok) =>
       /\ rec # <<>>
       /\ Len(rec[1].date_reprocessed) = 4
       /\ IsDecimal(rec[1].date_reprocessed)

\* the positions at which sub occurs in s
Occurrences(s, sub) ==
    {p \in 1..(Len(s) - Len(sub) + 1) : SubSeq(s, p, p + Len(sub) - 1) = sub}

\* C10 as amended: the derived year is the characters at the 0-based
\* positions 3 to 6 of the run-period token, fewer when the token is shorter
\* and digits only when the token has digits there (Run2015E gives 2015,
\* HIRun2015 gives un20); the run descriptor is the token with the
\* occurrences of that substring removed; date_created, date_reprocessed and
\* the virtual-machine link use this year.
C10_YearIsFixedSlice ==
    (pc = "returned" /\ m.ok) =>
       /\ rec # <<>>
       /\ LET runperiod == rec[1].run_period[1]
              year      == rec[1].date_reprocessed
              runx      == dataset_runperiod_runx(m)
          IN /\ Len(year) = IF Len(runperiod) <= 3 THEN 0
                            ELSE Min(4, Len(runperiod) - 3)
             /\ \A p \in 1..Len(year) : year[p] = runperiod[3 + p]
             /\ (Len(runperiod) >= 7
                   /\ \A p \in 4..7 : runperiod[p] \in Digits)
                  => (Len(year) = 4 /\ IsDecimal(year))
             /\ year = <<>> => runx = runperiod
             /\ Occurrences(runperiod, year) = {4}
                  => runx = SubSeq(runperiod, 1, 3)
                            \o SubSeq(runperiod, 8, Len(runperiod))
             /\ Len(runx) <= Len(runperiod)
             /\ rec[1].date_created = <<year>>
             /\ rec[1].vm_url = <<"/docs/cms-virtual-machine-">> \o year
             /\ rec[1].abstract
                = <<"<p>">> \o dataset_short(m) \o <<" primary dataset in ">>
                     \o dataset_format(m) \o <<" format from ">> \o runx
                     \o <<" of ">> \o year \o <<". Run period ...">>

\* the run period HIRun2015, whose derived year is not a year
C10_Witness ==
    /\ pc = "returned" /\ m.ok /\ rec # <<>>
    /\ rec[1].run_period
       = << <<"H", "I", "R", "u", "n", "2", "0", "1", "5">> >>
    /\ rec[1].date_reprocessed = <<"u", "n", "2", "0">>
    /\ dataset_runperiod_runx(m) = <<"H", "I", "R", "1", "5">>

\* the lines of the run-number file without the surrounding whitespace
RunLines == [p \in 1..Len(allruns_lines) |-> Strip(allruns_lines[p])]

IsHeader(p) == StartsWith(RunLines[p], <<"/">>)

\* the value lines of the block of the header at line p: the lines after it
\* up to the next header or the end of the file
BlockValues(p) ==
    LET last == CHOOSE q \in p..Len(RunLines) :
                   /\ \A r \in (p + 1)..q : ~ IsHeader(r)
                   /\ q < Len(RunLines) => IsHeader(q + 1)
    IN SubSeq(RunLines, p + 1, last)

RunNumbersLoaded ==
    pc \notin {"populate_fwyzard", "populate_doiinfo",
               "populate_runnumber_cache"}

\* C11: after populate_runnumber_cache every header line followed by at least
\* one value line, the last block of the file included, is a key of the
\* run-number cache, mapped to the value lines of its own block, sorted.
C11_EveryBlockCached ==
    RunNumbersLoaded =>
       \A p \in 1..Len(RunLines) :
          (IsHeader(p) /\ BlockValues(p) # <<>>) =>
             /\ RunLines[p] \in DOMAIN RUNNUMBER_CACHE
             /\ RUNNUMBER_CACHE[RunLines[p]] = Sorted(BlockValues(p))

\* the value of the occurrence of the key that a depth-first traversal of x
\* reaches first: the key of a mapping before what is nested below it, then
\* mapping values and sequence elements in order
RECURSIVE FirstOccurrence(_, _)
FirstOccurrence(x, key) ==
    IF x.t = "dict" /\ HasKey(x, key) THEN Lookup(x, key)
    ELSE IF ~ KeyOccurs(x, key) THEN None
    ELSE LET first == CHOOSE p \in 1..Len(x.kids) :
                         /\ KeyOccurs(x.kids[p].v, key)
                         /\ \A q \in 1..(p - 1) : ~ KeyOccurs(x.kids[q].v, key)
         IN FirstOccurrence(x.kids[first].v, key)

\* C12: get_from_deep_json returns the value of the occurrence of the key
\* that depth-first traversal reaches first, not that of a later occurrence.
C12_DeepSearchReturnsFirst ==
    pc = "searched" => aval = FirstOccurrence(data, akey)


\* the cache tables the populate_* loaders fill
Caches == <<FWYZARD, DOI_INFO, RUNNUMBER_CACHE, CONTAINERIMAGES_CACHE,
            RECOCMSSW_CACHE, RECOGLOBALTAG_CACHE, SELECTION_DESCRIPTIONS>>

\* every populate_* loader of main has finished
PopulateFinished == pc \in {"read_targets", "create_records", "raised", "done"}

\* the record just appended holds the lists of the caches unaltered
HandedInUnaltered ==
    Len(records') > Len(records) =>
        LET r == records'[Len(records')]
        IN /\ r.has_run_numbers => r.run_numbers = RUNNUMBER_CACHE[r.title]
           /\ r.has_container_images =>
                  r.container_images = CONTAINERIMAGES_CACHE[cmssw_release]

\* C13: once the populate_* loaders have finished, no later step of the run,
\* a create_record call that succeeds or fails included, changes any cache
\* table (trigger, DOI, run-number, container-image, reco-release,
\* reco-global-tag, selection-description), and the lists a record takes
\* from the caches (run numbers, trigger paths) stay as the loaders left them.
C13_CachesReadOnlyAfterPopulate ==
    [][PopulateFinished => (Caches' = Caches /\ HandedInUnaltered)]_vars

\* a run has ended with a record that holds run numbers and prints, without
\* its suffix, a trigger path that FWYZARD still holds with the suffix "_v"
C13_Witness ==
    /\ pc = "done"
    /\ \E k \in 1..Len(records) :
           /\ records[k].has_run_numbers
           /\ \E p \in 1..Len(records[k].methodology) :
                  LET par == records[k].methodology[p]
                  IN /\ par.kind = "HLT trigger paths"
                     /\ <<"H", "1">> \in {par.trigger_paths[q] :
                                            q \in 1..Len(par.trigger_paths)}
           /\ <<"H", "1", "_", "v">> \in
                  {FWYZARD[<<"Z">>][q] : q \in 1..Len(FWYZARD[<<"Z">>])}


\* the key holds "_" + dataset + "_" somewhere
HoldsDatasetName(key, dataset) ==
    \E p \in 1..Len(key) :
        /\ p + Len(dataset) + 1 <= Len(key)
        /\ key[p] = "_"
        /\ \A q \in 1..Len(dataset) : key[p + q] = dataset[q]
        /\ key[p + Len(dataset) + 1] = "_"

\* the keys of LINK_INFO that hold the short name of the dataset, in order
MatchingKeys ==
    SelectSeq([p \in 1..Len(LINK_INFO) |-> LINK_INFO[p][1]],
              LAMBDA key : HoldsDatasetName(key, dataset_short(m)))

KeysOf(seq) == {seq[p] : p \in 1..Len(seq)}

\* the "Data processing / RECO" paragraphs of the record, in order
RecoBlocks ==
    SelectSeq(rec[1].methodology,
              LAMBDA par : par.kind = "Data processing / RECO")

\* one block for every matching key, in key order, and no error
OneBlockPerMatchingKey ==
    /\ exc = "none"
    /\ rec # <<>>
    /\ [p \in 1..Len(RecoBlocks) |-> RecoBlocks[p].reco_link] = MatchingKeys

\* C14 as stated: the methodology text holds one "Data processing / RECO"
\* block for every processing-configuration key that holds "_S_", S the short
\* name of the dataset, in key order, none when no key matches, and whatever
\* the number of matching keys the call raises no error.
C14_OneBlockPerMatchingKey ==
    pc = "returned" => OneBlockPerMatchingKey

\* C14: when every key of LINK_INFO that holds "_S_" has an entry in
\* RECOCMSSW_CACHE and in RECOGLOBALTAG_CACHE, the methodology text holds one
\* "Data processing / RECO" block for every such key, in key order, with the
\* release, global tag and link of that key, none when no key matches, and no
\* error is raised; when some such key lacks an entry the call raises KeyError
\* and no record is made.
C14_OneBlockPerLinkedKey ==
    pc = "returned" =>
        IF KeysOf(MatchingKeys) \subseteq
               DOMAIN RECOCMSSW_CACHE \cap DOMAIN RECOGLOBALTAG_CACHE
        THEN /\ OneBlockPerMatchingKey
             /\ \A p \in 1..Len(RecoBlocks) :
                    LET b == RecoBlocks[p]
                    IN /\ b.release = RECOCMSSW_CACHE[b.reco_link]
                       /\ b.global_tag = RECOGLOBALTAG_CACHE[b.reco_link]
                       /\ <<b.reco_link, b.link>> \in KeysOf(LINK_INFO)
        ELSE exc = "KeyError" /\ rec = <<>>

\* a call has returned a record with two blocks, for two matching keys
C14_Witness ==
    /\ pc = "returned"
    /\ rec # <<>>
    /\ Len(MatchingKeys) = 2
    /\ Len(RecoBlocks) = 2

=============================================================================
